---- MODULE Spec2Model ----
(***************************************************************************)
(* Lowering of abstract DTensorSend / DTensorRecv ops to concrete transfer *)
(* ops (tensorflow/dtensor/mlir/dtensor_send_recv.cc).                     *)
(*                                                                         *)
(* The state is the part of the MLIR module the lowerers read and write:   *)
(* the clusters and their attributes, the abstract Send/Recv ops, the uses *)
(* of the Recv results, the concrete ops emitted so far, the module symbol *)
(* table, the program-key placeholder ops, and the outcome of each call.   *)
(***************************************************************************)
EXTENDS Integers, Sequences, FiniteSets, TLC

VARIABLES clusters, abs, erased, uses, emitted, symbols, programKeys, call, halted

vars == <<clusters, abs, erased, uses, emitted, symbols, programKeys, call, halted>>

(***************************************************************************)
(* Bounds.                                                                 *)
(***************************************************************************)
\* local devices of a multi-device mesh
MaxLocal == 2
\* consumers of each abstract Recv result
NumUses == 2
\* devices of a mesh in the device-ordinal specification
MaxDevices == 3
\* direct GetDeviceOrdinal calls in the device-ordinal specification
MaxCalls == 2

Pairs == {1, 2}
ElemTypes == {"i32", "f32"}
ClusterIds == {"A", "B"}
NoCluster == "none"

(***************************************************************************)
(* Mesh: backend kind, total device count, local device ids, local device  *)
(* names (one per local id).                                               *)
(***************************************************************************)
NoMesh == [type |-> "none", num |-> 0, ids |-> <<>>]

DeviceName(type, id) == <<type, id>>

local_devices(mesh) == [i \in 1..Len(mesh.ids) |-> DeviceName(mesh.type, mesh.ids[i])]

is_tpu_mesh(mesh) == mesh.type = "TPU"

is_cpu_mesh(mesh) == mesh.type = "CPU"

device_type(mesh) == mesh.type

\* The meshes of the lowering specification: a single-device host mesh, and
\* one multi-device mesh per backend kind (local ids need not be in order,
\* and the host mesh has a remote device 0).
Meshes ==
  { [type |-> "CPU", num |-> 1, ids |-> <<0>>],
    [type |-> "CPU", num |-> MaxLocal + 1, ids |-> [i \in 1..MaxLocal |-> i]],
    [type |-> "TPU", num |-> MaxLocal, ids |-> [i \in 1..MaxLocal |-> MaxLocal - i]],
    [type |-> "GPU", num |-> MaxLocal, ids |-> [i \in 1..MaxLocal |-> i - 1]] }

Min(a, b) == IF a <= b THEN a ELSE b

\* llvm::zip of the two local device name lists: as long as the shorter one.
device_pairs(send_mesh, recv_mesh) ==
  [i \in 1..Min(Len(send_mesh.ids), Len(recv_mesh.ids)) |->
     <<local_devices(send_mesh)[i], local_devices(recv_mesh)[i]>>]

(***************************************************************************)
(* Abstract ops: Send of pair p is op 2p-1, Recv of pair p is op 2p.       *)
(***************************************************************************)
SendOf(p) == 2 * p - 1
RecvOf(p) == 2 * p
AbsOps == {SendOf(p) : p \in Pairs} \cup {RecvOf(p) : p \in Pairs}
IsSend(a) == abs[a].kind = "DTensorSend"
IsRecv(a) == abs[a].kind = "DTensorRecv"

\* getParentOfType<tf_device::ClusterOp>: the op's cluster, or none.
ParentCluster(a) == abs[a].cluster

\* cluster->getParentOfType<func::FuncOp>: whether the cluster is in a function.
HasFunc(c) == clusters[c].has_func

\* ExtractDeviceMeshFromOp: the mesh attribute of the cluster, if any.
ExtractDeviceMeshFromOp(c) == IF c = NoCluster THEN NoMesh ELSE clusters[c].mesh

\* DeviceId(function): fails unless the function exists.
DeviceIdOk(c) == HasFunc(c)

(***************************************************************************)
(* Values: the result of an abstract op or of an emitted op.               *)
(***************************************************************************)
AbstractResult(a) == [def |-> "abstract", idx |-> a]
EmittedResult(i) == [def |-> "emitted", idx |-> i]
Consumers == {RecvOf(p) : p \in Pairs} \X (1..NumUses)

\* Value::replaceAllUsesWith
replaceAllUsesWith(u, old, new) == [c \in DOMAIN u |-> IF u[c] = old THEN new ELSE u[c]]

(***************************************************************************)
(* Emitted concrete ops.  Every op record has the same fields; a field an  *)
(* op kind does not have holds the "none" value of its type.               *)
(***************************************************************************)
NoDevice == DeviceName("none", 0)
NoKey == <<"none", 0>>
NoOrdinal == [kind |-> "none", table |-> <<>>, width |-> 0]

EmptyOp ==
  [op |-> "none", for |-> 0, key |-> NoKey, send_device |-> NoDevice,
   recv_device |-> NoDevice, incarnation |-> -1, type |-> "none",
   program_key |-> 0, ordinal |-> NoOrdinal, branches |-> <<>>, input |-> 0,
   cluster |-> NoCluster]

\* CreateIntScalarConst(0, builder, loc)
CreateIntScalarConst(v) == [kind |-> "const", table |-> <<v>>, width |-> 32]

(***************************************************************************)
(* GetOrCreateCompilationKey, on an op whose cluster is c (not none):      *)
(* the placeholder's result found by the walk of the cluster, or the       *)
(* result of a placeholder created at the start of the cluster body.       *)
(* A handle is a positive integer; 0 is the null value.                    *)
(***************************************************************************)
MaxOf(S) == CHOOSE x \in S : \A y \in S : y <= x

\* A GetOrCreateCompilationKey that does not look for a placeholder first.
GetOrCreateCompilationKey_Always(keys, c) ==
  LET fresh == Cardinality(keys) + 1
  IN  [keys |-> keys \cup {[cluster |-> c, program |-> fresh]}, key |-> fresh]

GetOrCreateCompilationKey(keys, c) ==
  LET found == {k.program : k \in {x \in keys : x.cluster = c}}
      fresh == Cardinality(keys) + 1
  IN  IF found # {}
      THEN [keys |-> keys, key |-> MaxOf(found)]
      ELSE [keys |-> keys \cup {[cluster |-> c, program |-> fresh]}, key |-> fresh]

(***************************************************************************)
(* GetDeviceOrdinal: the constant table device id -> ordinal, sliced at    *)
(* the runtime device id, optionally cast to 64 bits.                      *)
(***************************************************************************)
RECURSIVE FillOrdinals(_, _, _)
\* for (i = 0; i < local_device_ids.size(); ++i) table[local_device_ids[i]] = i
\* (i here is 1-based; the value written is the 0-based i - 1)
FillOrdinals(table, ids, i) ==
  IF i > Len(ids) THEN table
  ELSE FillOrdinals([table EXCEPT ![ids[i] + 1] = i - 1], ids, i + 1)

\* A table that holds 1-based ordinals.
device_id_to_ordinal_OneBased(mesh) ==
  [d \in 1..mesh.num |->
     IF \E i \in 1..Len(mesh.ids) : mesh.ids[i] + 1 = d
     THEN CHOOSE i \in 1..Len(mesh.ids) : mesh.ids[i] + 1 = d
     ELSE 0]

device_id_to_ordinal(mesh) ==
  FillOrdinals([d \in 1..mesh.num |-> 0], mesh.ids, 1)

GetDeviceOrdinal(mesh, return_int64_type) ==
  [kind |-> "slice", table |-> device_id_to_ordinal(mesh),
   width |-> IF return_int64_type THEN 64 ELSE 32]

\* An integer value of a given width; TF::CastOp to a wider signed integer
\* type keeps the value.
IntValue(width, val) == [width |-> width, val |-> val]
CastOp(v, width) == IntValue(width, v.val)

\* The runtime value of a device-ordinal operand on the device with id d:
\* the constant, or Slice(table, begin = d, size = 1) reshaped to a scalar
\* and then cast.
EvalOrdinal(o, d) ==
  LET v32 == IntValue(32, IF o.kind = "const" THEN o.table[1] ELSE o.table[d + 1])
  IN  IF o.width = 64 THEN CastOp(v32, 64) ELSE v32

(***************************************************************************)
(* The module symbol table: a set of symbols.  A name is                   *)
(* <<op name, kind of branch, op hash, branch index, uniquing suffix>>.    *)
(***************************************************************************)
NoBody ==
  [op |-> "none", key |-> NoKey, send_device |-> NoDevice, recv_device |-> NoDevice,
   incarnation |-> -1, type |-> "none", cast |-> FALSE, arg_attr |-> "none"]

MainSymbol ==
  [name |-> <<"main", "", 0, 0, 0>>, visibility |-> "public", for |-> 0,
   index |-> 0, body |-> NoBody]

SymbolNames(table) == {s.name : s \in table}

\* llvm::formatv(fmt, OpName(op), OpHash(op), index)
OpName(a) == abs[a].name
OpHash(a) == abs[a].hash
FormatName(fmt, a, index) == <<OpName(a), fmt, OpHash(a), index, 0>>

\* SymbolTable::insert: renames the symbol when its name is taken.
UniqueName(table, name) ==
  IF name \notin SymbolNames(table) THEN name
  ELSE LET free == {n \in 1..(Cardinality(table) + 1) :
                      [name EXCEPT ![5] = n] \notin SymbolNames(table)}
       IN  [name EXCEPT ![5] = CHOOSE n \in free : \A m \in free : n <= m]

SymbolTableInsert(table, sym) ==
  LET name == UniqueName(table, sym.name)
  IN  [table |-> table \cup {[sym EXCEPT !.name = name]}, name |-> name]

RECURSIVE GenerateBranchesFrom(_, _, _, _, _, _)
GenerateBranchesFrom(a, table, fmt, bodies, i, branches) ==
  IF i > Len(bodies) THEN [table |-> table, branches |-> branches]
  ELSE LET func_op == [name |-> FormatName(fmt, a, i - 1), visibility |-> "private",
                       for |-> a, index |-> i, body |-> bodies[i]]
           ins == SymbolTableInsert(table, func_op)
       IN  GenerateBranchesFrom(a, ins.table, fmt, bodies, i + 1,
                                Append(branches, ins.name))

RECURSIVE GenerateBranchesStale(_, _, _, _, _, _)
GenerateBranchesStale(a, table, fmt, bodies, i, branches) ==
  IF i > Len(bodies) THEN [table |-> table, branches |-> branches]
  ELSE LET func_op == [name |-> FormatName(fmt, a, i - 1), visibility |-> "private",
                       for |-> a, index |-> i, body |-> bodies[i]]
           ins == SymbolTableInsert(table, func_op)
       IN  GenerateBranchesStale(a, ins.table, fmt, bodies, i + 1,
                                 Append(branches, func_op.name))

\* A GenerateBranches that takes the branch reference before the insertion.
GenerateBranches_NameBeforeInsert(a, table, fmt, bodies) ==
  GenerateBranchesStale(a, table, fmt, bodies, 1, <<>>)

\* bodies[i] is what fn builds for the i-th of `values`.
GenerateBranches(a, table, fmt, bodies) ==
  GenerateBranchesFrom(a, table, fmt, bodies, 1, <<>>)

(***************************************************************************)
(* Initial states: the module as the earlier passes left it.  Every pair   *)
(* sends from cluster A (mesh src) to cluster B (mesh dst).  One context   *)
(* defect at most is present: ops outside any cluster, clusters outside    *)
(* any function, or clusters without a mesh attribute.  The pairs carry    *)
(* tensors of one element type; the first pair's ops have location hash 0, *)
(* the second pair's ops the same or another.                              *)
(***************************************************************************)
Defects == {"none", "no_cluster", "no_func", "no_mesh"}
TransferKey(p) == <<"t", p>>

InitClusters(src, dst, defect) ==
  [c \in ClusterIds |->
     [mesh |-> IF defect = "no_mesh" THEN NoMesh ELSE IF c = "A" THEN src ELSE dst,
      has_func |-> defect # "no_func"]]

InitAbs(src, dst, elem, hash, defect) ==
  [a \in AbsOps |->
     LET p == (a + 1) \div 2
         send == a = SendOf(p)
     IN  [kind |-> IF send THEN "DTensorSend" ELSE "DTensorRecv",
          pair |-> p,
          key |-> TransferKey(p),
          cluster |-> IF defect = "no_cluster" THEN NoCluster
                      ELSE IF send THEN "A" ELSE "B",
          elem |-> elem,
          name |-> IF send THEN "DTensorSend" ELSE "DTensorRecv",
          hash |-> hash[p],
          src |-> src,
          dst |-> dst]]

\* The call made on an abstract op: the lowerer, its extra argument (the
\* device-zero policy or the output type) and what it returned.
Pending == [fn |-> "none", arg |-> "none", status |-> "pending"]

Init ==
  \E src \in Meshes, dst \in Meshes, elem \in ElemTypes,
     hash \in [Pairs -> {0, 1}], defect \in Defects :
    /\ hash[1] = 0
    /\ clusters = InitClusters(src, dst, defect)
    /\ abs = InitAbs(src, dst, elem, hash, defect)
    /\ erased = {}
    /\ uses = [u \in Consumers |-> AbstractResult(u[1])]
    /\ emitted = <<>>
    /\ symbols = {MainSymbol}
    /\ programKeys = {}
    /\ call = [a \in AbsOps |-> Pending]
    /\ halted = FALSE

(***************************************************************************)
(* The pass lowers one pair to completion before it considers the next,    *)
(* and stops when a call terminates the process.                           *)
(***************************************************************************)
CanLower(a) ==
  /\ ~halted
  /\ call[a].status = "pending"
  /\ \A b \in AbsOps : abs[b].pair < abs[a].pair => call[b].status # "pending"

\* What a build can do on undefined behaviour (a null cluster dereferenced,
\* an empty optional read): fault, or run on with garbage.
UBOutcomes == {"crash", "corrupt"}
\* assert(cluster): aborts in a build with assertions, undefined without.
AssertOutcomes == {"assertion_failure"} \cup UBOutcomes

ReturnedWith(a, fn, arg, status) ==
  call' = [call EXCEPT ![a] = [fn |-> fn, arg |-> arg, status |-> status]]

Returned(a, fn, status) == ReturnedWith(a, fn, "none", status)

\* The call ends the process (or leaves it in an undefined state).
Terminates(a, fn, outcomes) ==
  /\ \E o \in outcomes : Returned(a, fn, o)
  /\ halted' = TRUE
  /\ UNCHANGED <<clusters, abs, erased, uses, emitted, symbols, programKeys>>

\* The call returns an InvalidArgument status; keys is the placeholder set
\* it leaves behind.
InvalidArgument(a, fn, keys) ==
  /\ Returned(a, fn, "invalid_argument")
  /\ programKeys' = keys
  /\ UNCHANGED <<clusters, abs, erased, uses, emitted, symbols, halted>>

HostOp(op, a, type, send_device, recv_device) ==
  [EmptyOp EXCEPT !.op = op, !.for = a, !.key = abs[a].key, !.type = type,
                  !.send_device = send_device, !.incarnation = 0,
                  !.recv_device = recv_device, !.cluster = ParentCluster(a)]

(***************************************************************************)
(* LowerDTensorSendToTFOp                                                  *)
(***************************************************************************)
LowerDTensorSendToTFOp(a) ==
  LET sending_devices == local_devices(abs[a].src)
      receiving_devices == local_devices(abs[a].dst)
      lowered_send_op == HostOp("_HostSend", a, abs[a].elem,
                                sending_devices[1], receiving_devices[1])
  IN  /\ CanLower(a) /\ IsSend(a)
      /\ emitted' = Append(emitted, lowered_send_op)
      /\ erased' = erased \cup {a}
      /\ Returned(a, "LowerDTensorSendToTFOp", "ok")
      /\ UNCHANGED <<clusters, abs, uses, symbols, programKeys, halted>>

(***************************************************************************)
(* LowerDTensorSendToXlaOp                                                 *)
(***************************************************************************)
\* A lowerer that takes only CPU meshes for host-side senders.
LowerDTensorSendToXlaOp_CpuOnly(a, send_from_device_zero) ==
  LET fn == "LowerDTensorSendToXlaOp"
      send_mesh == abs[a].src
      send_from_cpu == is_cpu_mesh(send_mesh)
      policy == IF send_from_device_zero THEN "device_zero" ELSE "device_ordinal"
      c == ParentCluster(a)
      got == GetOrCreateCompilationKey(programKeys, c)
      device_ordinal == IF send_from_device_zero THEN CreateIntScalarConst(0)
                        ELSE GetDeviceOrdinal(send_mesh, FALSE)
      from_host == [EmptyOp EXCEPT !.op = "_XlaSendFromHostV2", !.for = a,
                      !.key = abs[a].key, !.type = abs[a].elem,
                      !.program_key = got.key, !.ordinal = device_ordinal,
                      !.cluster = c]
      to_host == [EmptyOp EXCEPT !.op = "XlaSendToHost", !.for = a,
                    !.key = abs[a].key, !.type = abs[a].elem, !.cluster = c]
  IN  /\ CanLower(a) /\ IsSend(a)
      /\ IF send_from_cpu /\ c = NoCluster
         THEN Terminates(a, fn, AssertOutcomes)
         ELSE IF send_from_cpu /\ ~send_from_device_zero /\ ~DeviceIdOk(c)
         THEN InvalidArgument(a, fn, got.keys)
         ELSE /\ emitted' = Append(emitted, IF send_from_cpu THEN from_host ELSE to_host)
              /\ programKeys' = IF send_from_cpu THEN got.keys ELSE programKeys
              /\ erased' = erased \cup {a}
              /\ ReturnedWith(a, fn, policy, "ok")
              /\ UNCHANGED <<clusters, abs, uses, symbols, halted>>

LowerDTensorSendToXlaOp(a, send_from_device_zero) ==
  LET fn == "LowerDTensorSendToXlaOp"
      send_mesh == abs[a].src
      send_from_cpu == ~is_tpu_mesh(send_mesh)
      policy == IF send_from_device_zero THEN "device_zero" ELSE "device_ordinal"
      c == ParentCluster(a)
      got == GetOrCreateCompilationKey(programKeys, c)
      device_ordinal == IF send_from_device_zero THEN CreateIntScalarConst(0)
                        ELSE GetDeviceOrdinal(send_mesh, FALSE)
      from_host == [EmptyOp EXCEPT !.op = "_XlaSendFromHostV2", !.for = a,
                      !.key = abs[a].key, !.type = abs[a].elem,
                      !.program_key = got.key, !.ordinal = device_ordinal,
                      !.cluster = c]
      to_host == [EmptyOp EXCEPT !.op = "XlaSendToHost", !.for = a,
                    !.key = abs[a].key, !.type = abs[a].elem, !.cluster = c]
  IN  /\ CanLower(a) /\ IsSend(a)
      /\ IF send_from_cpu /\ c = NoCluster
         \* GetOrCreateCompilationKey asserts the cluster before the lowerer
         \* checks it
         THEN Terminates(a, fn, AssertOutcomes)
         ELSE IF send_from_cpu /\ ~send_from_device_zero /\ ~DeviceIdOk(c)
         \* no enclosing function, or DeviceId(function) fails; the
         \* placeholder is already there
         THEN InvalidArgument(a, fn, got.keys)
         ELSE /\ emitted' = Append(emitted, IF send_from_cpu THEN from_host ELSE to_host)
              /\ programKeys' = IF send_from_cpu THEN got.keys ELSE programKeys
              /\ erased' = erased \cup {a}
              /\ ReturnedWith(a, fn, policy, "ok")
              /\ UNCHANGED <<clusters, abs, uses, symbols, halted>>

(***************************************************************************)
(* LowerDTensorRecvToXlaOp.  output_type is the Recv's own type in the     *)
(* one-argument overload, the caller's choice in the others.               *)
(***************************************************************************)
OutputTypes(a) == {abs[a].elem, "i64"}

LowerDTensorRecvToXlaOp(a, output_type) ==
  LET fn == "LowerDTensorRecvToXlaOp"
      recv_at_cpu == is_cpu_mesh(abs[a].dst)
      recv_cluster == ParentCluster(a)
      mesh == ExtractDeviceMeshFromOp(recv_cluster)
      device_ordinal == GetDeviceOrdinal(mesh, FALSE)
      got == GetOrCreateCompilationKey(programKeys, recv_cluster)
      at_host == [EmptyOp EXCEPT !.op = "_XlaRecvAtHostV2", !.for = a,
                    !.key = abs[a].key, !.type = output_type,
                    !.program_key = got.key, !.ordinal = device_ordinal,
                    !.cluster = recv_cluster]
      from_host == [EmptyOp EXCEPT !.op = "XlaRecvFromHost", !.for = a,
                      !.key = abs[a].key, !.type = output_type,
                      !.cluster = recv_cluster]
  IN  /\ CanLower(a) /\ IsRecv(a)
      /\ output_type \in OutputTypes(a)
      /\ IF recv_at_cpu /\ mesh = NoMesh
         THEN InvalidArgument(a, fn, programKeys)
         ELSE IF recv_at_cpu /\ ~DeviceIdOk(recv_cluster)
         THEN InvalidArgument(a, fn, programKeys)
         ELSE /\ emitted' = Append(emitted, IF recv_at_cpu THEN at_host ELSE from_host)
              /\ programKeys' = IF recv_at_cpu THEN got.keys ELSE programKeys
              /\ ReturnedWith(a, fn, output_type, "ok")
              /\ UNCHANGED <<clusters, abs, erased, uses, symbols, halted>>

(***************************************************************************)
(* LowerDTensorSendFromCPUToTFOp: one host send per receiving device.      *)
(***************************************************************************)
LowerDTensorSendFromCPUToTFOp(a) ==
  LET sending_devices == local_devices(abs[a].src)
      receiving_devices == local_devices(abs[a].dst)
      sends == [i \in 1..Len(receiving_devices) |->
                  HostOp("_HostSend", a, abs[a].elem,
                         sending_devices[1], receiving_devices[i])]
  IN  /\ CanLower(a) /\ IsSend(a)
      /\ emitted' = emitted \o sends
      /\ erased' = erased \cup {a}
      /\ Returned(a, "LowerDTensorSendFromCPUToTFOp", "ok")
      /\ UNCHANGED <<clusters, abs, uses, symbols, programKeys, halted>>

(***************************************************************************)
(* LowerDTensorRecvFromCPUToTFOp: one host receive per receiving device;   *)
(* the uses of the Recv go to the last one.                                *)
(***************************************************************************)
\* A lowerer that erases the Recv without redirecting its uses.
LowerDTensorRecvFromCPUToTFOp_NoReplace(a) ==
  LET fn == "LowerDTensorRecvFromCPUToTFOp"
      recv_cluster == ParentCluster(a)
      sending_devices == local_devices(abs[a].src)
      receiving_devices == local_devices(abs[a].dst)
      recvs == [i \in 1..Len(receiving_devices) |->
                  HostOp("_HostRecv", a, abs[a].elem,
                         sending_devices[1], receiving_devices[i])]
  IN  /\ CanLower(a) /\ IsRecv(a)
      /\ IF recv_cluster = NoCluster
         THEN Terminates(a, fn, UBOutcomes)
         ELSE /\ emitted' = emitted \o recvs
              /\ erased' = erased \cup {a}
              /\ Returned(a, fn, "ok")
              /\ UNCHANGED <<clusters, abs, uses, symbols, programKeys, halted>>

LowerDTensorRecvFromCPUToTFOp(a) ==
  LET fn == "LowerDTensorRecvFromCPUToTFOp"
      recv_cluster == ParentCluster(a)
      sending_devices == local_devices(abs[a].src)
      receiving_devices == local_devices(abs[a].dst)
      recvs == [i \in 1..Len(receiving_devices) |->
                  HostOp("_HostRecv", a, abs[a].elem,
                         sending_devices[1], receiving_devices[i])]
      lowered_recv_op == EmittedResult(Len(emitted) + Len(recvs))
  IN  /\ CanLower(a) /\ IsRecv(a)
      /\ IF recv_cluster = NoCluster
         \* recv_cluster.GetBody() on a null cluster
         THEN Terminates(a, fn, UBOutcomes)
         ELSE /\ emitted' = emitted \o recvs
              /\ uses' = replaceAllUsesWith(uses, AbstractResult(a), lowered_recv_op)
              /\ erased' = erased \cup {a}
              /\ Returned(a, fn, "ok")
              /\ UNCHANGED <<clusters, abs, symbols, programKeys, halted>>

(***************************************************************************)
(* LowerDTensorRecvToTFOp: one host receive; the Recv and its uses stay.   *)
(***************************************************************************)
\* A lowerer that emits one receive per receiving device, last device first.
LowerDTensorRecvToTFOp_Fanout(a, output_type) ==
  LET fn == "LowerDTensorRecvToTFOp"
      recv_cluster == ParentCluster(a)
      sending_devices == local_devices(abs[a].src)
      receiving_devices == local_devices(abs[a].dst)
      recvs == [i \in 1..Len(receiving_devices) |->
                  HostOp("_HostRecv", a, output_type,
                         sending_devices[1], receiving_devices[Len(receiving_devices) + 1 - i])]
  IN  /\ CanLower(a) /\ IsRecv(a)
      /\ output_type \in OutputTypes(a)
      /\ IF recv_cluster = NoCluster
         THEN Terminates(a, fn, UBOutcomes)
         ELSE /\ emitted' = emitted \o recvs
              /\ ReturnedWith(a, fn, output_type, "ok")
              /\ UNCHANGED <<clusters, abs, erased, uses, symbols, programKeys, halted>>

LowerDTensorRecvToTFOp(a, output_type) ==
  LET fn == "LowerDTensorRecvToTFOp"
      recv_cluster == ParentCluster(a)
      sending_devices == local_devices(abs[a].src)
      receiving_devices == local_devices(abs[a].dst)
      lowered_recv_op == HostOp("_HostRecv", a, output_type,
                                sending_devices[1], receiving_devices[1])
  IN  /\ CanLower(a) /\ IsRecv(a)
      /\ output_type \in OutputTypes(a)
      /\ IF recv_cluster = NoCluster
         \* recv_cluster.GetBody() on a null cluster
         THEN Terminates(a, fn, UBOutcomes)
         ELSE /\ emitted' = Append(emitted, lowered_recv_op)
              /\ ReturnedWith(a, fn, output_type, "ok")
              /\ UNCHANGED <<clusters, abs, erased, uses, symbols, programKeys, halted>>

(***************************************************************************)
(* LowerOneToOneDTensorSendToTFHostSend: one private function per device   *)
(* pair, each holding a host send, and a Case op that picks one by the     *)
(* device ordinal.                                                         *)
(***************************************************************************)
\* Layout::ToString of a layout on the mesh, as far as the model tells
\* layouts apart.
LayoutToString(mesh) == mesh.type

\* The body the Send lambda builds for one device pair.
SendBranch(a, i32_copy, device_pair) ==
  [op |-> "_HostSend", key |-> abs[a].key, send_device |-> device_pair[1],
   recv_device |-> device_pair[2], incarnation |-> 0,
   type |-> IF i32_copy THEN "i64" ELSE abs[a].elem,
   cast |-> i32_copy, arg_attr |-> LayoutToString(abs[a].src)]

OneToOneSend(a, erase_now) ==
  LET fn == "LowerOneToOneDTensorSendToTFHostSend"
      send_mesh == abs[a].src
      recv_mesh == abs[a].dst
      i32_copy == abs[a].elem = "i32"
      pairs == device_pairs(send_mesh, recv_mesh)
      send_cluster == ParentCluster(a)
      mesh == ExtractDeviceMeshFromOp(send_cluster)
      device_ordinal == GetDeviceOrdinal(mesh, FALSE)
      gen == GenerateBranches(a, symbols, "send",
                              [i \in DOMAIN pairs |-> SendBranch(a, i32_copy, pairs[i])])
      case_op == [EmptyOp EXCEPT !.op = "Case", !.for = a, !.ordinal = device_ordinal,
                    !.branches = gen.branches, !.cluster = send_cluster]
  IN  /\ CanLower(a) /\ IsSend(a)
      /\ IF send_cluster = NoCluster
         \* send_cluster->getParentOfType on a null cluster
         THEN Terminates(a, fn, UBOutcomes)
         ELSE IF mesh = NoMesh
         \* *mesh on an empty optional
         THEN Terminates(a, fn, UBOutcomes)
         ELSE IF ~DeviceIdOk(send_cluster)
         THEN InvalidArgument(a, fn, programKeys)
         ELSE /\ symbols' = gen.table
              /\ emitted' = Append(emitted, case_op)
              /\ erased' = IF erase_now THEN erased \cup {a} ELSE erased
              /\ Returned(a, fn, "ok")
              /\ UNCHANGED <<clusters, abs, uses, programKeys, halted>>

\* A lowerer that defers the erasure for TPU destinations only.
LowerOneToOneDTensorSendToTFHostSend_EraseUnlessTpu(a) ==
  OneToOneSend(a, device_type(abs[a].dst) # "TPU")

LowerOneToOneDTensorSendToTFHostSend(a) ==
  OneToOneSend(a, device_type(abs[a].dst) = "GPU")

(***************************************************************************)
(* LowerOneToOneDTensorRecvToTFHostRecv: one private function per device   *)
(* pair, each holding a host receive, a Case op, and a cast back to 32     *)
(* bits when the receives are widened.                                     *)
(***************************************************************************)
\* The body the Recv lambda builds for one device pair.
RecvBranch(a, local_output_type, device_pair) ==
  [op |-> "_HostRecv", key |-> abs[a].key, send_device |-> device_pair[1],
   recv_device |-> device_pair[2], incarnation |-> 0,
   type |-> local_output_type, cast |-> FALSE, arg_attr |-> "none"]

OneToOneRecv(a, i32_copy) ==
  LET fn == "LowerOneToOneDTensorRecvToTFHostRecv"
      send_mesh == abs[a].src
      recv_mesh == abs[a].dst
      pairs == device_pairs(send_mesh, recv_mesh)
      recv_cluster == ParentCluster(a)
      mesh == ExtractDeviceMeshFromOp(recv_cluster)
      device_ordinal == GetDeviceOrdinal(mesh, FALSE)
      local_recv_type == abs[a].elem
      local_output_type == IF i32_copy THEN "i64" ELSE local_recv_type
      gen == GenerateBranches(a, symbols, "receive",
                              [i \in DOMAIN pairs |-> RecvBranch(a, local_output_type, pairs[i])])
      case_op == [EmptyOp EXCEPT !.op = "Case", !.for = a, !.type = local_output_type,
                    !.ordinal = device_ordinal, !.branches = gen.branches,
                    !.cluster = recv_cluster]
      cast_op == [EmptyOp EXCEPT !.op = "Cast", !.for = a, !.type = local_recv_type,
                    !.input = Len(emitted) + 1, !.cluster = recv_cluster]
      new_ops == IF i32_copy THEN <<case_op, cast_op>> ELSE <<case_op>>
      lowered_recv == EmittedResult(Len(emitted) + Len(new_ops))
  IN  /\ CanLower(a) /\ IsRecv(a)
      /\ IF recv_cluster = NoCluster
         \* recv_cluster->getParentOfType on a null cluster
         THEN Terminates(a, fn, UBOutcomes)
         ELSE IF mesh = NoMesh
         \* *mesh on an empty optional
         THEN Terminates(a, fn, UBOutcomes)
         ELSE IF ~DeviceIdOk(recv_cluster)
         THEN InvalidArgument(a, fn, programKeys)
         ELSE /\ symbols' = gen.table
              /\ emitted' = emitted \o new_ops
              /\ uses' = replaceAllUsesWith(uses, AbstractResult(a), lowered_recv)
              /\ erased' = erased \cup {a}
              /\ Returned(a, fn, "ok")
              /\ UNCHANGED <<clusters, abs, programKeys, halted>>

\* A lowerer that receives 32-bit integers as they are.
LowerOneToOneDTensorRecvToTFHostRecv_NoWidening(a) ==
  OneToOneRecv(a, FALSE)

LowerOneToOneDTensorRecvToTFHostRecv(a) ==
  OneToOneRecv(a, abs[a].elem = "i32")

(***************************************************************************)
(* The lowering specification: any lowerer may be called on any pending    *)
(* abstract op of its kind.                                                *)
(***************************************************************************)
Next ==
  \E a \in AbsOps :
    \/ LowerDTensorSendToTFOp(a)
    \/ \E send_from_device_zero \in BOOLEAN :
         LowerDTensorSendToXlaOp(a, send_from_device_zero)
    \/ \E output_type \in OutputTypes(a) : LowerDTensorRecvToXlaOp(a, output_type)
    \/ LowerDTensorSendFromCPUToTFOp(a)
    \/ LowerDTensorRecvFromCPUToTFOp(a)
    \/ \E output_type \in OutputTypes(a) : LowerDTensorRecvToTFOp(a, output_type)
    \/ LowerOneToOneDTensorSendToTFHostSend(a)
    \/ LowerOneToOneDTensorRecvToTFHostRecv(a)

Spec == Init /\ [][Next]_vars

(***************************************************************************)
(* The device-ordinal specification: GetDeviceOrdinal called directly, for *)
(* every mesh of at most MaxDevices devices whose local device ids are     *)
(* distinct, with either result width.                                     *)
(***************************************************************************)
RECURSIVE InjectiveSeqs(_, _)
\* the sequences of n distinct elements of S
InjectiveSeqs(S, n) ==
  IF n = 0 THEN {<<>>}
  ELSE {Append(q, x) : q \in InjectiveSeqs(S, n - 1), x \in S} \cap
       {q \in [1..n -> S] : \A i, j \in 1..n : i # j => q[i] # q[j]}

OrdinalMeshes ==
  UNION {UNION {{[type |-> "TPU", num |-> num, ids |-> ids] :
                    ids \in InjectiveSeqs(0..(num - 1), n)} : n \in 1..num} :
         num \in 1..MaxDevices}

InitOrdinal ==
  \E mesh \in OrdinalMeshes, has_func \in BOOLEAN :
    /\ clusters = [c \in ClusterIds |-> [mesh |-> mesh, has_func |-> has_func]]
    /\ abs = <<>>
    /\ erased = {}
    /\ uses = <<>>
    /\ emitted = <<>>
    /\ symbols = {MainSymbol}
    /\ programKeys = {}
    /\ call = <<>>
    /\ halted = FALSE

\* One call GetDeviceOrdinal(mesh of c, loc, function of c, builder, flag).
CallGetDeviceOrdinal(c, return_int64_type) ==
  LET mesh == clusters[c].mesh
      arg == IF return_int64_type THEN "int64" ELSE "int32"
      ordinal_op == [EmptyOp EXCEPT !.op = "DeviceOrdinal", !.cluster = c,
                       !.ordinal = GetDeviceOrdinal(mesh, return_int64_type)]
  IN  /\ Len(call) < MaxCalls
      /\ IF DeviceIdOk(c)
         THEN /\ emitted' = Append(emitted, ordinal_op)
              /\ call' = Append(call, [fn |-> "GetDeviceOrdinal", arg |-> arg,
                                       status |-> "ok"])
         ELSE /\ emitted' = emitted
              /\ call' = Append(call, [fn |-> "GetDeviceOrdinal", arg |-> arg,
                                       status |-> "invalid_argument"])
      /\ UNCHANGED <<clusters, abs, erased, uses, symbols, programKeys, halted>>

NextOrdinal ==
  \E c \in ClusterIds, return_int64_type \in BOOLEAN :
    CallGetDeviceOrdinal(c, return_int64_type)

SpecOrdinal == InitOrdinal /\ [][NextOrdinal]_vars

(***************************************************************************)
(* Properties.                                                             *)
(***************************************************************************)
Ok(a, fn) == call[a].fn = fn /\ call[a].status = "ok"

\* the emitted ops of kind op that lower the abstract op a
EmittedFor(a, op) == {i \in DOMAIN emitted : emitted[i].for = a /\ emitted[i].op = op}

AllEmittedFor(a) == {i \in DOMAIN emitted : emitted[i].for = a}

Keyed == {i \in DOMAIN emitted : emitted[i].program_key # 0}

\* C1: every cluster holds at most one program-key placeholder; the handle a
\* lowered op carries is the result of the placeholder of its own cluster,
\* so two ops of one cluster carry the same handle and two ops of different
\* clusters carry different handles.
C1_OnePlaceholderPerCluster ==
  /\ \A c \in ClusterIds : Cardinality({k \in programKeys : k.cluster = c}) <= 1
  /\ \A k1, k2 \in programKeys : k1.program = k2.program => k1 = k2
  /\ \A i \in Keyed :
       [cluster |-> emitted[i].cluster, program |-> emitted[i].program_key] \in programKeys
  /\ \A i, j \in Keyed :
       (emitted[i].cluster = emitted[j].cluster) <=>
       (emitted[i].program_key = emitted[j].program_key)

\* Two keyed ops in one cluster and a keyed op in the other cluster.
C1_Witness ==
  \E i, j, k \in Keyed :
    /\ i # j
    /\ emitted[i].cluster = emitted[j].cluster
    /\ emitted[k].cluster # emitted[i].cluster

\* the uses of the result of the abstract Recv a
UsesOf(a) == {u \in Consumers : u[1] = a}

\* the abstract op is gone and every use of its result is a use of the
\* result of the last op emitted for it
ErasedAndRedirected(a) ==
  /\ a \in erased
  /\ IsRecv(a) =>
       \A u \in UsesOf(a) :
         /\ uses[u].def = "emitted"
         /\ AllEmittedFor(a) # {}
         /\ uses[u].idx = MaxOf(AllEmittedFor(a))

\* the abstract op is still in the graph and the uses of its result are untouched
LeftInPlace(a) ==
  /\ a \notin erased
  /\ \A u \in UsesOf(a) : uses[u] = AbstractResult(a)

RedirectingVariants ==
  {"LowerDTensorSendToTFOp", "LowerDTensorSendToXlaOp", "LowerDTensorSendFromCPUToTFOp",
   "LowerDTensorRecvFromCPUToTFOp", "LowerOneToOneDTensorRecvToTFHostRecv"}

CallerRedirectedVariants == {"LowerDTensorRecvToTFOp", "LowerDTensorRecvToXlaOp"}

\* C2 as stated: after a successful call of any of the seven variants the
\* abstract op is erased and no use of its result remains.
C2_AllVariantsEraseAndRedirect ==
  \A a \in AbsOps :
    (call[a].status = "ok" /\
     call[a].fn \in RedirectingVariants \cup CallerRedirectedVariants)
      => ErasedAndRedirected(a)

\* C2 amended: the five variants that erase do erase and redirect; after
\* LowerDTensorRecvToTFOp and LowerDTensorRecvToXlaOp the abstract Recv is
\* still in the graph with every use of its result untouched.
C2_EraseAndRedirectExceptRecvToTFAndXla ==
  \A a \in AbsOps :
    /\ (call[a].status = "ok" /\ call[a].fn \in RedirectingVariants)
         => ErasedAndRedirected(a)
    /\ (call[a].status = "ok" /\ call[a].fn \in CallerRedirectedVariants)
         => LeftInPlace(a)

\* A Recv lowered by the fan-out receive (uses redirected) and another left
\* in place by LowerDTensorRecvToTFOp.
C2_Witness ==
  /\ Ok(RecvOf(1), "LowerDTensorRecvFromCPUToTFOp")
  /\ uses[<<RecvOf(1), 1>>].def = "emitted"
  /\ Ok(RecvOf(2), "LowerDTensorRecvToTFOp")
  /\ Len(abs[RecvOf(1)].dst.ids) > 1

\* C3 as stated: a call never ends in an assertion failure or in undefined
\* behaviour on an absent cluster, function or mesh; it returns (a value or
\* an invalid-argument status).
C3_NoTerminationOnMissingContext ==
  \A a \in AbsOps : call[a].status \in {"pending", "ok", "invalid_argument"}

\* the host sends / receives of the pair p when both ops went through the
\* single-target host lowerers
SingleTargetHostOps(p) == AllEmittedFor(SendOf(p)) \cup AllEmittedFor(RecvOf(p))

\* C4: a pair lowered by LowerDTensorSendToTFOp and LowerDTensorRecvToTFOp
\* has exactly one host send and one host receive and no Case op; both
\* name the first local device of the source mesh and of the destination
\* mesh, incarnation 0 and the key of the abstract op.
C4_SingleHostSendAndRecv ==
  \A p \in Pairs :
    (Ok(SendOf(p), "LowerDTensorSendToTFOp") /\ Ok(RecvOf(p), "LowerDTensorRecvToTFOp"))
      => /\ Cardinality(EmittedFor(SendOf(p), "_HostSend")) = 1
         /\ Cardinality(EmittedFor(RecvOf(p), "_HostRecv")) = 1
         /\ Cardinality(SingleTargetHostOps(p)) = 2
         /\ \A i \in SingleTargetHostOps(p) :
              /\ emitted[i].op # "Case"
              /\ emitted[i].send_device = local_devices(abs[SendOf(p)].src)[1]
              /\ emitted[i].recv_device = local_devices(abs[SendOf(p)].dst)[1]
              /\ emitted[i].incarnation = 0
              /\ emitted[i].key = abs[emitted[i].for].key
              /\ emitted[i].key = TransferKey(p)

\* A host-to-host pair, with several local devices on the receiving mesh,
\* lowered by the two single-target lowerers.
C4_Witness ==
  \E p \in Pairs :
    /\ Ok(SendOf(p), "LowerDTensorSendToTFOp") /\ Ok(RecvOf(p), "LowerDTensorRecvToTFOp")
    /\ is_cpu_mesh(abs[SendOf(p)].src) /\ is_cpu_mesh(abs[SendOf(p)].dst)
    /\ Len(abs[SendOf(p)].dst.ids) > 1

BranchingVariants ==
  {"LowerOneToOneDTensorSendToTFHostSend", "LowerOneToOneDTensorRecvToTFHostRecv"}

\* the abstract op went through a branching lowerer, which returned a Case op
Branched(a) == call[a].status = "ok" /\ call[a].fn \in BranchingVariants

\* the subprograms generated for the abstract op a
SubprogramsOf(a) == {s \in symbols : s.for = a}

\* the symbol a branch reference resolves to
Lookup(name) == CHOOSE s \in symbols : s.name = name

\* C5: a branching lowering over N device pairs leaves exactly N private
\* subprograms of its own in the module, all names of the module are
\* pairwise distinct, the symbols that were there before are still there
\* unchanged, and the one Case op has N branches, the i-th referring to the
\* subprogram built for device pair i.
C5_BranchTableMatchesSubprograms ==
  /\ MainSymbol \in symbols
  /\ \A s, t \in symbols : s.name = t.name => s = t
  /\ \A s \in symbols : s = MainSymbol \/ (s.for \in AbsOps /\ Branched(s.for))
  /\ \A a \in AbsOps :
       Branched(a) =>
         LET pairs == device_pairs(abs[a].src, abs[a].dst)
             N == Len(pairs)
         IN  /\ Cardinality(SubprogramsOf(a)) = N
             /\ Cardinality(EmittedFor(a, "Case")) = 1
             /\ \A c \in EmittedFor(a, "Case") :
                  /\ Len(emitted[c].branches) = N
                  /\ \A i \in 1..N :
                       /\ emitted[c].branches[i] \in SymbolNames(symbols)
                       /\ Lookup(emitted[c].branches[i]).for = a
                       /\ Lookup(emitted[c].branches[i]).index = i
                       /\ Lookup(emitted[c].branches[i]).visibility = "private"
                       /\ Lookup(emitted[c].branches[i]).body.send_device = pairs[i][1]
                       /\ Lookup(emitted[c].branches[i]).body.recv_device = pairs[i][2]

\* Both Sends went through the branching lowerer over several device pairs,
\* and the second one's subprogram names collided with the first one's.
C5_Witness ==
  /\ Branched(SendOf(1)) /\ Branched(SendOf(2))
  /\ Len(device_pairs(abs[SendOf(1)].src, abs[SendOf(1)].dst)) > 1
  /\ \E s \in SubprogramsOf(SendOf(2)) : s.name[5] # 0

\* the 0-based position of device id d in the local device id list
PositionOf(mesh, d) == (CHOOSE i \in 1..Len(mesh.ids) : mesh.ids[i] = d) - 1

LocalIds(mesh) == {mesh.ids[i] : i \in 1..Len(mesh.ids)}

\* C6: the table GetDeviceOrdinal builds has one entry per device of the
\* mesh, entry local_device_ids[i] holds i and every other entry 0; on a
\* local device d the computed value is the position of d in the local
\* device id list, with the 32-bit and with the 64-bit result alike.
C6_OrdinalIsPositionInLocalIds ==
  \A k \in DOMAIN emitted :
    LET o == emitted[k].ordinal
        mesh == clusters[emitted[k].cluster].mesh
    IN  /\ Len(o.table) = mesh.num
        /\ \A i \in 1..Len(mesh.ids) : o.table[mesh.ids[i] + 1] = i - 1
        /\ \A d \in 0..(mesh.num - 1) : d \notin LocalIds(mesh) => o.table[d + 1] = 0
        /\ o.width = (IF call[k].arg = "int64" THEN 64 ELSE 32)
        /\ \A d \in LocalIds(mesh) :
             /\ EvalOrdinal(o, d) = IntValue(o.width, PositionOf(mesh, d))
             /\ \A j \in DOMAIN emitted :
                  EvalOrdinal(emitted[j].ordinal, d).val = EvalOrdinal(o, d).val

\* A 64-bit and a 32-bit ordinal over a mesh whose local ids are out of
\* order and do not cover the mesh.
C6_Witness ==
  \E j, k \in DOMAIN emitted :
    LET mesh == clusters[emitted[k].cluster].mesh
    IN  /\ emitted[j].ordinal.width = 64 /\ emitted[k].ordinal.width = 32
        /\ Len(mesh.ids) >= 2 /\ Len(mesh.ids) < mesh.num
        /\ mesh.ids[1] > mesh.ids[2]

\* the one op LowerDTensorSendToXlaOp emitted for the Send a
XlaSendsOf(a) ==
  {i \in DOMAIN emitted :
     emitted[i].for = a /\ emitted[i].op \in {"_XlaSendFromHostV2", "XlaSendToHost"}}

\* the send carries a compilation key and the ordinal the policy asks for
CarriesKeyAndOrdinal(i, a) ==
  /\ emitted[i].op = "_XlaSendFromHostV2"
  /\ emitted[i].program_key # 0
  /\ emitted[i].ordinal # NoOrdinal
  /\ call[a].arg = "device_zero" =>
       /\ emitted[i].ordinal.kind = "const"
       /\ \A d \in 0..(abs[a].src.num - 1) : EvalOrdinal(emitted[i].ordinal, d).val = 0
  /\ call[a].arg = "device_ordinal" =>
       /\ emitted[i].ordinal.kind = "slice"
       /\ \A d \in LocalIds(abs[a].src) :
            EvalOrdinal(emitted[i].ordinal, d).val = PositionOf(abs[a].src, d)

\* the send carries neither
CarriesNeither(i) ==
  /\ emitted[i].op = "XlaSendToHost"
  /\ emitted[i].program_key = 0
  /\ emitted[i].ordinal = NoOrdinal

\* C7 as stated: a host (CPU) source mesh gives a send with key and
\* ordinal, an accelerator (TPU or GPU) source mesh a send with neither.
C7_AcceleratorSourceHasNoOrdinal ==
  \A a \in AbsOps :
    Ok(a, "LowerDTensorSendToXlaOp") =>
      /\ Cardinality(XlaSendsOf(a)) = 1
      /\ \A i \in XlaSendsOf(a) :
           /\ is_cpu_mesh(abs[a].src) => CarriesKeyAndOrdinal(i, a)
           /\ abs[a].src.type \in {"TPU", "GPU"} => CarriesNeither(i)

\* C7 amended: every source mesh that is not a TPU mesh (CPU or GPU) gives
\* a send with key and ordinal; a TPU source mesh a send with neither.
C7_OnlyTpuSourceHasNoOrdinal ==
  \A a \in AbsOps :
    Ok(a, "LowerDTensorSendToXlaOp") =>
      /\ Cardinality(XlaSendsOf(a)) = 1
      /\ \A i \in XlaSendsOf(a) :
           /\ ~is_tpu_mesh(abs[a].src) => CarriesKeyAndOrdinal(i, a)
           /\ is_tpu_mesh(abs[a].src) => CarriesNeither(i)

\* A Send from a GPU mesh lowered with a resolved ordinal, and one lowered
\* with the device-zero policy.
C7_Witness ==
  /\ Ok(SendOf(1), "LowerDTensorSendToXlaOp") /\ Ok(SendOf(2), "LowerDTensorSendToXlaOp")
  /\ abs[SendOf(1)].src.type = "GPU"
  /\ call[SendOf(1)].arg = "device_ordinal" /\ call[SendOf(2)].arg = "device_zero"
  /\ \A i \in XlaSendsOf(SendOf(1)) : emitted[i].program_key # 0

\* the element type a tensor of element type elem has in transit
TransitType(elem) == IF elem = "i32" THEN "i64" ELSE elem

\* the receive ops emitted for the Recv a, in the graph or in subprograms
ReceiveTypesOf(a) ==
  {emitted[i].type : i \in EmittedFor(a, "_XlaRecvAtHostV2") \cup
                           EmittedFor(a, "XlaRecvFromHost") \cup
                           EmittedFor(a, "_HostRecv")}
  \cup {s.body.type : s \in SubprogramsOf(a)}

\* every receive emitted for a declares 64-bit integers, one cast back to
\* 32 bits follows, and every consumer of the Recv reads the cast
WidenedAndNarrowed(a) ==
  /\ ReceiveTypesOf(a) = {"i64"}
  /\ Cardinality(EmittedFor(a, "Cast")) = 1
  /\ \A c \in EmittedFor(a, "Cast") :
       /\ emitted[c].type = "i32"
       /\ emitted[c].input \in AllEmittedFor(a) \ {c}
       /\ emitted[emitted[c].input].type = "i64"
       /\ \A u \in UsesOf(a) : uses[u] = EmittedResult(c)

\* C8 as stated: a Recv of 32-bit integers lowered for an accelerator-to-host
\* transfer is received as 64-bit integers and cast back, and its consumers
\* read the cast.
C8_AcceleratorToHostRecvIsWidened ==
  \A a \in AbsOps :
    (/\ call[a].status = "ok"
     /\ call[a].fn \in {"LowerDTensorRecvToXlaOp", "LowerOneToOneDTensorRecvToTFHostRecv"}
     /\ abs[a].elem = "i32"
     /\ abs[a].src.type \in {"TPU", "GPU"} /\ is_cpu_mesh(abs[a].dst))
      => WidenedAndNarrowed(a)

\* C8 amended: that holds of the branching lowerer, whatever the meshes;
\* LowerDTensorRecvToXlaOp emits one receive of the output type it is
\* given, no cast, and leaves the consumers on the abstract Recv.
C8_BranchingRecvIsWidened ==
  \A a \in AbsOps :
    /\ (Ok(a, "LowerOneToOneDTensorRecvToTFHostRecv") /\ abs[a].elem = "i32")
         => /\ WidenedAndNarrowed(a)
            /\ SubprogramsOf(a) # {}
    /\ Ok(a, "LowerDTensorRecvToXlaOp")
         => /\ ReceiveTypesOf(a) = {call[a].arg}
            /\ EmittedFor(a, "Cast") = {}
            /\ \A u \in UsesOf(a) : uses[u] = AbstractResult(a)

\* A Recv of 32-bit integers from an accelerator mesh to a host mesh that
\* went through the branching lowerer, and one that went through
\* LowerDTensorRecvToXlaOp with its own type.
C8_Witness ==
  /\ Ok(RecvOf(1), "LowerOneToOneDTensorRecvToTFHostRecv")
  /\ Ok(RecvOf(2), "LowerDTensorRecvToXlaOp") /\ call[RecvOf(2)].arg = "i32"
  /\ abs[RecvOf(1)].elem = "i32"
  /\ is_tpu_mesh(abs[RecvOf(1)].src) /\ is_cpu_mesh(abs[RecvOf(1)].dst)
  /\ EmittedFor(RecvOf(1), "Cast") # {}

\* the body of the i-th branch of the Case op emitted for a
BranchBody(a, i) ==
  Lookup(emitted[CHOOSE c \in EmittedFor(a, "Case") : TRUE].branches[i]).body

NumBranches(a) == Len(emitted[CHOOSE c \in EmittedFor(a, "Case") : TRUE].branches)

\* C9: when both ops of a pair went through the branching lowerers, the
\* i-th Send subprogram and the i-th Recv subprogram hold a host send and a
\* host receive with the key of the abstract ops, the same sending and
\* receiving device, incarnation 0, and the same element type in transit.
C9_BranchesOfAPairMatch ==
  \A p \in Pairs :
    (Branched(SendOf(p)) /\ Branched(RecvOf(p))) =>
      /\ NumBranches(SendOf(p)) = NumBranches(RecvOf(p))
      /\ \A i \in 1..NumBranches(SendOf(p)) :
           LET snd == BranchBody(SendOf(p), i)
               rcv == BranchBody(RecvOf(p), i)
           IN  /\ snd.op = "_HostSend" /\ rcv.op = "_HostRecv"
               /\ snd.key = abs[SendOf(p)].key /\ rcv.key = snd.key
               /\ rcv.send_device = snd.send_device
               /\ rcv.recv_device = snd.recv_device
               /\ snd.incarnation = 0 /\ rcv.incarnation = 0
               /\ snd.type = TransitType(abs[SendOf(p)].elem)
               /\ rcv.type = snd.type
               /\ snd.cast = (abs[SendOf(p)].elem = "i32")

\* A pair of 32-bit integers over several device pairs, both ops lowered by
\* the branching lowerers.
C9_Witness ==
  \E p \in Pairs :
    /\ Branched(SendOf(p)) /\ Branched(RecvOf(p))
    /\ abs[SendOf(p)].elem = "i32"
    /\ NumBranches(SendOf(p)) > 1
    /\ BranchBody(SendOf(p), 2).send_device # BranchBody(SendOf(p), 1).send_device

\* C10 as stated: after the branching Send lowerer the abstract Send is
\* erased exactly when the destination mesh is a host (CPU) mesh.
C10_ErasedIffHostDestination ==
  \A a \in AbsOps :
    Ok(a, "LowerOneToOneDTensorSendToTFHostSend") =>
      (a \in erased <=> is_cpu_mesh(abs[a].dst))

\* C10 amended: the abstract Send is erased exactly when the destination
\* mesh is a GPU mesh; for a CPU or TPU destination it is still there.
C10_ErasedIffGpuDestination ==
  \A a \in AbsOps :
    Ok(a, "LowerOneToOneDTensorSendToTFHostSend") =>
      (a \in erased <=> device_type(abs[a].dst) = "GPU")

\* A Send to a GPU mesh erased by the branching lowerer.
C10_Witness ==
  \E a \in AbsOps :
    /\ Ok(a, "LowerOneToOneDTensorSendToTFHostSend")
    /\ device_type(abs[a].dst) = "GPU"
    /\ a \in erased

\* the mesh whose local devices run the code of the abstract op a: the
\* sending mesh of a Send, the receiving mesh of a Recv
OwnMesh(a) == IF IsSend(a) THEN abs[a].src ELSE abs[a].dst

\* the device of its own mesh that the body of a subprogram of a names
OwnDevice(a, body) == IF IsSend(a) THEN body.send_device ELSE body.recv_device

\* the branch index the Case op emitted for a gets on the device with id d
BranchIndexOn(a, d) ==
  EvalOrdinal(emitted[CHOOSE c \in EmittedFor(a, "Case") : TRUE].ordinal, d).val

\* the two meshes have as many local devices, and the mesh of the cluster
\* is the op's own mesh
OneToOneMeshes(a) ==
  /\ Len(abs[a].src.ids) = Len(abs[a].dst.ids)
  /\ ExtractDeviceMeshFromOp(ParentCluster(a)) = OwnMesh(a)

\* C11: after a branching lowering between meshes with as many local
\* devices, on every local device of the cluster's mesh the ordinal given
\* to the Case op is an index into its branch table, and the branch there
\* is the subprogram built for that device's position in the local device
\* list (it names that very device).
C11_OrdinalSelectsOwnBranch ==
  \A a \in AbsOps :
    (Branched(a) /\ OneToOneMeshes(a)) =>
      LET mesh == ExtractDeviceMeshFromOp(ParentCluster(a))
      IN  \A d \in LocalIds(mesh) :
            /\ 0 <= BranchIndexOn(a, d)
            /\ BranchIndexOn(a, d) < NumBranches(a)
            /\ BranchIndexOn(a, d) < Cardinality(SubprogramsOf(a))
            /\ LET sub == Lookup(emitted[CHOOSE c \in EmittedFor(a, "Case") : TRUE]
                                   .branches[BranchIndexOn(a, d) + 1])
               IN  /\ sub.for = a
                   /\ sub.index = PositionOf(mesh, d) + 1
                   /\ OwnDevice(a, sub.body) = DeviceName(mesh.type, d)
                   /\ sub.body = BranchBody(a, PositionOf(mesh, d) + 1)

\* A Send and a Recv lowered by the branching lowerers between two meshes
\* of several local devices each, the sending one with its local ids out
\* of order, the receiving one with a remote device.
C11_Witness ==
  \E p \in Pairs :
    /\ Branched(SendOf(p)) /\ Branched(RecvOf(p))
    /\ OneToOneMeshes(SendOf(p)) /\ OneToOneMeshes(RecvOf(p))
    /\ Len(abs[SendOf(p)].src.ids) > 1
    /\ abs[SendOf(p)].src.ids[1] > abs[SendOf(p)].src.ids[2]
    /\ abs[SendOf(p)].dst.num > Len(abs[SendOf(p)].dst.ids)
    /\ BranchIndexOn(SendOf(p), abs[SendOf(p)].src.ids[2]) = 1

====
